---------------------------- MODULE Spec2Model ----------------------------
(***************************************************************************)
(* A model of framely's crawl engine: the URL helpers (utils/url.go), the  *)
(* crawl session (models/models.go), the sequential and the parallel       *)
(* scheduler (services/app.go) and the report merge (services/report.go).  *)
(*                                                                         *)
(* A URL is a record [origin, path, query, fragment].  origin is scheme    *)
(* and host together ("" for a relative reference); path, query and        *)
(* fragment are sequences of tokens, a token standing for a run of         *)
(* characters ("/" is a token of its own), so that the string operations   *)
(* of the source (TrimSuffix, HasSuffix, Contains, ToLower) are computed   *)
(* on the sequence as the source computes them on the string.              *)
(***************************************************************************)
EXTENDS Integers, Sequences, FiniteSets, TLC

(***************************************************************************)
(* Bounds of the model.                                                    *)
(***************************************************************************)
MaxDepthBound == 2
MaxWorkers == 2
MaxTasks == 4
MaxRunLen == 2

(***************************************************************************)
(* Program constants.                                                      *)
(***************************************************************************)
ResultsChanCap == 100

\* An optional value (a nil pointer, a missing file) is the empty sequence, a
\* present one the one-element sequence of it.
None == <<>>
Some(x) == <<x>>

(***************************************************************************)
(* URLs                                                                    *)
(***************************************************************************)
BaseOrigin == "https://h"
OtherOrigin == "https://x"

U(o, p, q, f) == [origin |-> o, path |-> p, query |-> q, fragment |-> f]

VARIABLE config   \* config.Config: BaseURL, MaxDepth, ParallelWorkers, SkipPatterns

\* The target as it is usually given: scheme and host, no path.
RootURL == U(BaseOrigin, <<>>, <<>>, <<>>)

\* config.BaseURL: the target as getTargetURL returns it.
BaseURL == config.BaseURL

Page(name) == U(BaseOrigin, <<"/", name>>, <<>>, <<>>)
PageSlash(name) == U(BaseOrigin, <<"/", name, "/">>, <<>>, <<>>)
PageQuery(name) == U(BaseOrigin, <<"/", name>>, <<"x=1">>, <<>>)
PageFrag(name) == U(BaseOrigin, <<"/", name>>, <<>>, <<"top">>)
RootSlash == U(BaseOrigin, <<"/">>, <<>>, <<>>)

LowerTok(t) ==
  CASE t = "A" -> "a"
    [] t = "B" -> "b"
    [] t = ".PDF" -> ".pdf"
    [] OTHER -> t

ToLower(s) == [i \in 1..Len(s) |-> LowerTok(s[i])]

HasSuffix(s, suf) ==
  /\ Len(suf) <= Len(s)
  /\ SubSeq(s, Len(s) - Len(suf) + 1, Len(s)) = suf

HasPrefix(s, pre) ==
  /\ Len(pre) <= Len(s)
  /\ SubSeq(s, 1, Len(pre)) = pre

TrimSuffix(s, suf) ==
  IF HasSuffix(s, suf) THEN SubSeq(s, 1, Len(s) - Len(suf)) ELSE s

Contains(s, sub) ==
  \E i \in 0..(Len(s) - Len(sub)) : SubSeq(s, i + 1, i + Len(sub)) = sub

\* The URL as the string url.URL.String() renders: origin, path, ?query, #fragment.
UrlString(u) ==
  <<u.origin>> \o u.path
    \o (IF u.query = <<>> THEN <<>> ELSE <<"?">> \o u.query)
    \o (IF u.fragment = <<>> THEN <<>> ELSE <<"#">> \o u.fragment)

EXCLUDED_EXTENSIONS == {<<".pdf">>, <<".png">>}

PseudoSchemes == {<<"mailto:">>, <<"tel:">>, <<"javascript:">>}

IsValidURL(u, base) ==
  /\ u.origin = base.origin
  /\ \A ext \in EXCLUDED_EXTENSIONS : ~HasSuffix(ToLower(u.path), ext)
  /\ \A ps \in PseudoSchemes : ~Contains(UrlString(u), ps)

NormalizeURL(u) ==
  LET p0 == IF u.path = <<>> THEN <<"/">> ELSE u.path
      p1 == TrimSuffix(p0, <<"/">>)
      p2 == IF p1 = <<>> THEN <<"/">> ELSE p1
  IN  U(u.origin, p2, <<>>, <<>>)

FixRelativeURL(link, base) ==
  IF link.origin # "" THEN link ELSE [link EXCEPT !.origin = base.origin]

ShouldSkipURL(u, skipPatterns) ==
  \E pat \in skipPatterns : Contains(ToLower(UrlString(u)), ToLower(pat))


(***************************************************************************)
(* Inputs: the site the Renderer sees, the discovery sources, the prior    *)
(* report, the configuration.                                              *)
(***************************************************************************)
External == U(OtherOrigin, <<"/", "a">>, <<>>, <<>>)
PdfLink == U(BaseOrigin, <<"/", "b", ".PDF">>, <<>>, <<>>)
Relative == U("", <<"/", "b">>, <<>>, <<>>)

\* The page the server answers with for a URL: its first path segment.
PageOf(u) == IF Len(u.path) >= 2 THEN u.path[2] ELSE ""

PageNames == {"", "a", "b"}

\* Each site gives, per page, the hrefs the page's anchors resolve to, in order.
Sites ==
  { [p \in PageNames |->
       CASE p = "" -> <<Page("a"), Page("b")>>
         [] OTHER  -> <<>>],
    [p \in PageNames |->
       CASE p = ""  -> <<Page("a"), Page("b")>>
         [] p = "a" -> <<PageSlash("b"), RootURL>>
         [] OTHER   -> <<PageQuery("a"), PageFrag("a")>>],
    [p \in PageNames |->
       CASE p = ""  -> <<Page("a"), External, Page("b")>>
         [] p = "a" -> <<Page("b"), PdfLink>>
         [] OTHER   -> <<Page("a"), Relative, RootSlash>>],
    [p \in PageNames |->
       CASE p = ""  -> <<PageSlash("a")>>
         [] p = "a" -> <<PageQuery("b")>>
         [] OTHER   -> <<PageFrag("a")>>] }

\* How a GET of a discovery source ends: served and parsed, or one of the
\* failures fetchAndParseSitemap and parseRobotsTxt return early on.
FetchFailures == {"fetch error", "status", "read error", "parse error"}

\* Every source served: /sitemap.xml, /robots.txt and the sitemap that
\* robots.txt refers to.
AllServed == [sitemap |-> "ok", robots |-> "ok", referenced |-> "ok"]

\* The discovery sources: the flags of the configuration, the <loc> entries of
\* /sitemap.xml and of the sitemap robots.txt refers to, and how the GET of
\* each ends.
DiscoveryInputs ==
  { [CheckSitemap |-> FALSE, CheckRobots |-> FALSE, sitemap |-> {}, robots |-> {},
     fetch |-> AllServed],
    [CheckSitemap |-> TRUE, CheckRobots |-> TRUE,
     sitemap |-> {PageSlash("b"), RootSlash}, robots |-> {Page("b")},
     fetch |-> AllServed],
    [CheckSitemap |-> TRUE, CheckRobots |-> FALSE,
     sitemap |-> {PageQuery("a"), External}, robots |-> {Page("b")},
     fetch |-> AllServed] }

SkipPatternChoices == { {}, {<<"/", "B">>} }

CaptureErrors == {"timeout"}
CaptureSizes == {3}
CaptureDurations == {2}

Success(url, size, dur) ==
  [URL |-> url, Success |-> TRUE, Error |-> "", FileSize |-> size, Duration |-> dur]

Failure(url, err, dur) ==
  [URL |-> url, Success |-> FALSE, Error |-> err, FileSize |-> 0, Duration |-> dur]

\* The outcomes CaptureScreenshot can return for a URL.
CaptureOutcomes(url) ==
  { Success(url, sz, d) : sz \in CaptureSizes, d \in CaptureDurations }
    \cup { Failure(url, e, d) : e \in CaptureErrors, d \in CaptureDurations }


(***************************************************************************)
(* models/models.go: the crawl session.  A Go map[string]bool that only    *)
(* ever stores true is the set of its keys; depthMap is a function on the  *)
(* keys stored so far.                                                     *)
(***************************************************************************)
Put(m, k, v) == [x \in (DOMAIN m) \cup {k} |-> IF x = k THEN v ELSE m[x]]

\* A variant: AddURL without its test of the visited and existing maps.
AddURLUnchecked(s, url, depth, visited, existing) ==
  [q |-> Append(s.q, url), d |-> Put(s.d, url, depth)]

\* CrawlSession.AddURL on the pair s = [q: urlQueue, d: depthMap].
AddURL(s, url, depth, visited, existing) ==
  IF url \notin visited /\ url \notin existing
    THEN [q |-> Append(s.q, url), d |-> Put(s.d, url, depth)]
    ELSE s

\* CrawlSession.GetStats
GetStats(rs) ==
  [total   |-> Len(rs),
   success |-> Cardinality({i \in 1..Len(rs) : rs[i].Success}),
   failed  |-> Cardinality({i \in 1..Len(rs) : ~rs[i].Success})]

(***************************************************************************)
(* services/report.go                                                      *)
(***************************************************************************)
RECURSIVE Tally(_, _)
\* The loop of GenerateReport over allResults, acc holding its four counters.
Tally(rs, acc) ==
  IF rs = <<>> THEN acc
  ELSE LET result == Head(rs)
       IN  Tally(Tail(rs),
                 [successCount  |-> acc.successCount + (IF result.Success THEN 1 ELSE 0),
                  totalFileSize |-> acc.totalFileSize
                                      + (IF result.Success THEN result.FileSize ELSE 0),
                  failCount     |-> acc.failCount + (IF ~result.Success THEN 1 ELSE 0),
                  totalDuration |-> acc.totalDuration + result.Duration])

\* A variant: the average taken over every entry counted, failed ones included.
MakeReportAverageOverAll(allResults, counted, sessionResults) ==
  LET t == Tally(counted, [successCount |-> 0, failCount |-> 0,
                           totalDuration |-> 0, totalFileSize |-> 0])
  IN  [TotalPages            |-> Len(counted),
       SuccessfulScreenshots |-> t.successCount,
       FailedScreenshots     |-> t.failCount,
       LastUpdate            |-> Len(sessionResults) > 0,
       NewPagesInThisRun     |-> Len(sessionResults),
       TotalDuration         |-> t.totalDuration,
       AveragePageSize       |-> IF Len(counted) > 0
                                   THEN t.totalFileSize \div Len(counted) ELSE 0,
       Results               |-> allResults]

\* A variant: the new-pages count taken from the merged list.
MakeReportNewFromMerged(allResults, counted, sessionResults) ==
  LET t == Tally(counted, [successCount |-> 0, failCount |-> 0,
                           totalDuration |-> 0, totalFileSize |-> 0])
      averagePageSize ==
        IF t.successCount > 0 THEN t.totalFileSize \div t.successCount ELSE 0
  IN  [TotalPages            |-> Len(counted),
       SuccessfulScreenshots |-> t.successCount,
       FailedScreenshots     |-> t.failCount,
       LastUpdate            |-> Len(sessionResults) > 0,
       NewPagesInThisRun     |-> Len(allResults),
       TotalDuration         |-> t.totalDuration,
       AveragePageSize       |-> averagePageSize,
       Results               |-> allResults]

\* GenerateReport from its loop on: the aggregates of the entries counted and
\* the report record built from them.
MakeReport(allResults, counted, sessionResults) ==
  LET t == Tally(counted, [successCount |-> 0, failCount |-> 0,
                           totalDuration |-> 0, totalFileSize |-> 0])
      averagePageSize ==
        IF t.successCount > 0 THEN t.totalFileSize \div t.successCount ELSE 0
  IN  [TotalPages            |-> Len(counted),
       SuccessfulScreenshots |-> t.successCount,
       FailedScreenshots     |-> t.failCount,
       LastUpdate            |-> Len(sessionResults) > 0,
       NewPagesInThisRun     |-> Len(sessionResults),
       TotalDuration         |-> t.totalDuration,
       AveragePageSize       |-> averagePageSize,
       Results               |-> allResults]

PreviousResults(existingReport) ==
  IF existingReport # None THEN existingReport[1].Results ELSE <<>>

RECURSIVE WithoutKnown(_, _)
WithoutKnown(rs, known) ==
  IF rs = <<>> THEN <<>>
  ELSE IF Head(rs).URL \in known
         THEN WithoutKnown(Tail(rs), known)
         ELSE <<Head(rs)>> \o WithoutKnown(Tail(rs), known \cup {Head(rs).URL})

\* A variant: a merge that drops an entry whose URL the list already holds.
GenerateReportDedup(sessionResults, existingReport) ==
  LET prev == PreviousResults(existingReport)
      fresh == WithoutKnown(sessionResults, { prev[i].URL : i \in 1..Len(prev) })
  IN  MakeReport(prev \o fresh, prev \o fresh, sessionResults)

\* A variant: a merge that counts the aggregates over this run's entries alone.
GenerateReportSessionTotals(sessionResults, existingReport) ==
  MakeReport(PreviousResults(existingReport) \o sessionResults, sessionResults,
             sessionResults)

\* A variant: a merge that keeps the marker of the report it loaded.
GenerateReportKeepsMarker(sessionResults, existingReport) ==
  LET allResults == PreviousResults(existingReport) \o sessionResults
      report == MakeReport(allResults, allResults, sessionResults)
  IN  [report EXCEPT !.LastUpdate =
         @ \/ (existingReport # None /\ existingReport[1].LastUpdate)]

\* ReportService.GenerateReport: the report written for the session's results
\* and the report loaded from disk (None when there is none).
GenerateReport(sessionResults, existingReport) ==
  LET allResults == PreviousResults(existingReport) \o sessionResults
  IN  MakeReport(allResults, allResults, sessionResults)

\* A variant: the URL field of every entry taken, the failed ones included.
GetExistingURLsOfAll(existingReport) ==
  IF existingReport = None
    THEN {}
    ELSE LET report == existingReport[1]
         IN  { report.Results[i].URL : i \in 1..Len(report.Results) }

\* ReportService.GetExistingURLs: the URL fields of the successful entries.
GetExistingURLs(existingReport) ==
  IF existingReport = None
    THEN {}
    ELSE LET report == existingReport[1]
         IN  { report.Results[i].URL :
                 i \in { j \in 1..Len(report.Results) : report.Results[j].Success } }

(***************************************************************************)
(* The Renderer's ExtractLinks (its filter of the hrefs the page yields).  *)
(***************************************************************************)
RECURSIVE FilterLinks(_, _, _)
FilterLinks(links, seenLinks, validLinks) ==
  IF links = <<>> THEN validLinks
  ELSE LET link == Head(links)
           normalizedLink == NormalizeURL(link)
       IN  IF IsValidURL(link, BaseURL) /\ link \notin seenLinks
                /\ normalizedLink \notin seenLinks
             THEN FilterLinks(Tail(links), seenLinks \cup {normalizedLink},
                              Append(validLinks, link))
             ELSE FilterLinks(Tail(links), seenLinks, validLinks)

ExtractLinks(hrefs) == FilterLinks(hrefs, {}, <<>>)

(***************************************************************************)
(* services/app.go: helpers of the schedulers.                             *)
(***************************************************************************)
\* The test of one link in addNewLinksToQueue, down to AddURL's own test.
LinkAccepted(link, visited, existing, skipPatterns) ==
  LET fixedLink == FixRelativeURL(link, BaseURL)
      normalizedLink == NormalizeURL(fixedLink)
  IN  /\ IsValidURL(fixedLink, BaseURL)
      /\ normalizedLink \notin visited
      /\ normalizedLink \notin existing
      /\ ~ShouldSkipURL(fixedLink, skipPatterns)

RECURSIVE addNewLinksToQueue(_, _, _, _, _, _)
addNewLinksToQueue(links, depth, s, visited, existing, skipPatterns) ==
  IF links = <<>> THEN s
  ELSE LET fixedLink == FixRelativeURL(Head(links), BaseURL)
           s1 == IF LinkAccepted(Head(links), visited, existing, skipPatterns)
                   THEN AddURL(s, fixedLink, depth, visited, existing)
                   ELSE s
       IN  addNewLinksToQueue(Tail(links), depth, s1, visited, existing, skipPatterns)

\* A variant: fetchAndParseSitemap reading the <loc> entries however the GET
\* ended.
fetchAndParseSitemapOfAnyResponse(outcome, locs) ==
  { u \in locs : IsValidURL(u, BaseURL) }

\* DiscoveryService.fetchAndParseSitemap: nothing on a fetch error, a status
\* other than 200, a read error or an XML parse error; else the valid <loc>s.
fetchAndParseSitemap(outcome, locs) ==
  IF outcome # "ok" THEN {}
  ELSE { u \in locs : IsValidURL(u, BaseURL) }

\* DiscoveryService.parseSitemap
parseSitemap(d) == fetchAndParseSitemap(d.fetch.sitemap, d.sitemap)

\* DiscoveryService.parseRobotsTxt: nothing when robots.txt itself cannot be
\* had; else the sitemap it refers to, fetched and parsed.
parseRobotsTxt(d) ==
  IF d.fetch.robots # "ok" THEN {}
  ELSE fetchAndParseSitemap(d.fetch.referenced, d.robots)

\* DiscoveryService.DiscoverURLs: the set it collects; its order is the map's.
DiscoveredSet(d) ==
  LET sitemapURLs == IF d.CheckSitemap THEN parseSitemap(d) ELSE {}
      robotsURLs == IF d.CheckRobots THEN parseRobotsTxt(d) ELSE {}
      discoveredURLs == { NormalizeURL(u) : u \in sitemapURLs \cup robotsURLs }
  IN  { FixRelativeURL(u, BaseURL) : u \in
          { v \in discoveredURLs : IsValidURL(FixRelativeURL(v, BaseURL), BaseURL) } }

\* The orders in which a Go map's keys can be ranged over.
Orders(S) ==
  { f \in [1..Cardinality(S) -> S] : \A i, j \in 1..Cardinality(S) : i # j => f[i] # f[j] }

RECURSIVE AddDiscovered(_, _, _, _)
\* The loop of AppService.DiscoverURLs over the discovered URLs.
AddDiscovered(urls, s, visited, existing) ==
  IF urls = <<>> THEN s
  ELSE LET normalizedURL == NormalizeURL(Head(urls))
           s1 == IF normalizedURL \notin visited /\ normalizedURL \notin existing
                   THEN AddURL(s, Head(urls), 1, visited, existing)
                   ELSE s
       IN  AddDiscovered(Tail(urls), s1, visited, existing)


(***************************************************************************)
(* State                                                                   *)
(***************************************************************************)
VARIABLES
  site,          \* the site as the Renderer sees it
  discovery,     \* the discovery flags and what the sources yield
  priorReport,   \* report.json as found on disk, None when absent
  startup,       \* how the startup checks of this run turn out
  phase,         \* where AppService.Run stands
  visitedURLs, existingURLs, urlQueue, depthMap, results,   \* CrawlSession
  resultsChan,   \* runParallelCrawl's channel of results
  semaphore,     \* the number of tokens in runParallelCrawl's semaphore
  tasks,         \* the goroutines runParallelCrawl has launched
  dqSnap,        \* the slice header GetNextURL has read and not yet written back
  captures,      \* history: the CaptureScreenshot calls made, with their depth
  extracts,      \* history: the ExtractLinks calls made, with their outcome
  report,        \* the report this run wrote, None before
  urlStrs,       \* a URL string, then what each NormalizeURL call made of the last
  runA, runB, rep1, rep2, repAB   \* the merge of two runs and of their concatenation

vars == <<config, site, discovery, priorReport, startup, phase, visitedURLs, existingURLs,
          urlQueue, depthMap, results, resultsChan, semaphore, tasks, dqSnap,
          captures, extracts, report, urlStrs, runA, runB, rep1, rep2, repAB>>

\* What no step of a run changes.
inputVars == <<config, site, discovery, priorReport, startup, urlStrs>>
sessionVars == <<visitedURLs, existingURLs, urlQueue, depthMap, results>>
parVars == <<resultsChan, semaphore, tasks, dqSnap>>
mergeVars == <<runA, runB, rep1, rep2, repAB>>

\* EnsureOutputDirectory and TestConnection: both pass, or one returns an error.
StartupOutcomes == {"ok", "mkdir failed", "connection failed"}

PriorRuns ==
  { <<Success(RootURL, 3, 2), Success(Page("a"), 3, 2), Success(Page("b"), 3, 2)>>,
    <<Success(PageSlash("b"), 3, 2), Failure(Page("a"), "timeout", 2)>> }

PriorReports == {None} \cup { Some(GenerateReport(rs, None)) : rs \in PriorRuns }

\* configureDepth and configureWorkerCount accept 1..10.
Configs ==
  [BaseURL : {RootURL}, MaxDepth : 1..MaxDepthBound, ParallelWorkers : 1..MaxWorkers,
   SkipPatterns : SkipPatternChoices]

EmptyMap == [x \in {} |-> 0]

Init ==
  /\ config \in Configs
  /\ site \in Sites
  /\ discovery \in DiscoveryInputs
  /\ priorReport \in PriorReports
  /\ startup \in StartupOutcomes
  /\ urlStrs = <<>>
  /\ phase = "start"
  /\ visitedURLs = {}
  /\ existingURLs = {}
  /\ urlQueue = <<>>
  /\ depthMap = EmptyMap
  /\ results = <<>>
  /\ resultsChan = <<>>
  /\ semaphore = 0
  /\ tasks = <<>>
  /\ dqSnap = None
  /\ captures = <<>>
  /\ extracts = {}
  /\ report = None
  /\ runA = <<>> /\ runB = <<>> /\ rep1 = None /\ rep2 = None /\ repAB = None

(***************************************************************************)
(* AppService.Run up to the crawl                                          *)
(***************************************************************************)
\* A variant: Initialize going on whatever the startup checks return.
InitializeIgnoringChecks ==
  /\ phase = "start"
  /\ existingURLs' = GetExistingURLs(priorReport)
  /\ phase' = "initialized"
  /\ UNCHANGED <<inputVars, visitedURLs, urlQueue, depthMap, results, parVars,
                 captures, extracts, report, mergeVars>>

\* AppService.Initialize: EnsureOutputDirectory, then TestConnection, then the
\* existing URLs.  An error of either check is returned, Run returns it and
\* main ends the process.
Initialize ==
  /\ phase = "start"
  /\ IF startup = "mkdir failed" \/ startup = "connection failed"
       THEN /\ existingURLs' = existingURLs
            /\ phase' = "aborted"
       ELSE /\ existingURLs' = GetExistingURLs(priorReport)
            /\ phase' = "initialized"
  /\ UNCHANGED <<inputVars, visitedURLs, urlQueue, depthMap, results, parVars,
                 captures, extracts, report, mergeVars>>

\* AppService.DiscoverURLs
DiscoverURLs ==
  /\ phase = "initialized"
  /\ IF ~discovery.CheckSitemap /\ ~discovery.CheckRobots
       THEN UNCHANGED <<urlQueue, depthMap>>
       ELSE \E discoveredURLs \in Orders(DiscoveredSet(discovery)) :
              LET s == AddDiscovered(discoveredURLs, [q |-> urlQueue, d |-> depthMap],
                                     visitedURLs, existingURLs)
              IN  urlQueue' = s.q /\ depthMap' = s.d
  /\ phase' = "discovered"
  /\ UNCHANGED <<inputVars, visitedURLs, existingURLs, results, parVars,
                 captures, extracts, report, mergeVars>>

\* AppService.CrawlWebsite: the seed, then the choice of the scheduler.
CrawlWebsite ==
  /\ phase = "discovered"
  /\ LET s == AddURL([q |-> urlQueue, d |-> depthMap], BaseURL, 0,
                     visitedURLs, existingURLs)
     IN  urlQueue' = s.q /\ depthMap' = s.d
  /\ phase' = IF config.ParallelWorkers > 1 THEN "par" ELSE "seq"
  /\ UNCHANGED <<inputVars, visitedURLs, existingURLs, results, parVars,
                 captures, extracts, report, mergeVars>>


(***************************************************************************)
(* The schedulers' tests of a dequeued URL                                 *)
(***************************************************************************)
\* A variant: a depth limit one too large.
MaxDepthPlusOne == config.MaxDepth + 1

\* as.config.MaxDepth, as both schedulers read it.
MaxDepth == config.MaxDepth

\* A variant: the visited and existing lookups keyed by the raw URL.
rawURL(url) == url

\* normalizedURL := utils.NormalizeURL(url): the key of the visited and the
\* existing lookups of both loops.
normalizedURL(url) == NormalizeURL(url)

\* GetNextURL's depth := cs.depthMap[url]; a missing key reads as 0.
DepthOf(url) == IF url \in DOMAIN depthMap THEN depthMap[url] ELSE 0

\* A variant: the links of a successful capture followed at any depth.
FollowsLinksAtAnyDepth(result, depth) == result.Success

\* A variant: the links followed whatever the capture's outcome.
FollowsLinksAlways(result, depth) == depth < MaxDepth

\* result.Success && depth < as.config.MaxDepth
FollowsLinks(result, depth) == result.Success /\ depth < MaxDepth

(***************************************************************************)
(* runSequentialCrawl: one iteration of its loop per step.                 *)
(***************************************************************************)
runSequentialCrawl ==
  /\ phase = "seq"
  /\ UNCHANGED <<inputVars, existingURLs, parVars, report, mergeVars>>
  /\ IF urlQueue = <<>>
       THEN /\ phase' = "crawled"
            /\ UNCHANGED <<visitedURLs, urlQueue, depthMap, results, captures, extracts>>
       ELSE
         LET url == Head(urlQueue)
             rest == Tail(urlQueue)
             depth == DepthOf(url)
         IN
         /\ phase' = phase
         /\ IF depth > MaxDepth \/ normalizedURL(url) \in visitedURLs
              THEN /\ urlQueue' = rest
                   /\ UNCHANGED <<visitedURLs, depthMap, results, captures, extracts>>
            ELSE IF normalizedURL(url) \in existingURLs
                      \/ ShouldSkipURL(url, config.SkipPatterns)
              THEN /\ urlQueue' = rest
                   /\ visitedURLs' = visitedURLs \cup {normalizedURL(url)}
                   /\ UNCHANGED <<depthMap, results, captures, extracts>>
            ELSE
              /\ Len(captures) < MaxTasks
              /\ visitedURLs' = visitedURLs \cup {normalizedURL(url)}
              /\ captures' = Append(captures, [url |-> url, depth |-> depth])
              /\ \E result \in CaptureOutcomes(url) :
                   /\ results' = Append(results, result)
                   /\ IF FollowsLinks(result, depth)
                        THEN \E linksOk \in BOOLEAN :
                               /\ extracts' = extracts \cup
                                    {[url |-> url, depth |-> depth, ok |-> linksOk]}
                               /\ IF linksOk
                                    THEN LET s == addNewLinksToQueue(
                                                    ExtractLinks(site[PageOf(url)]),
                                                    depth + 1,
                                                    [q |-> rest, d |-> depthMap],
                                                    visitedURLs', existingURLs,
                                                    config.SkipPatterns)
                                         IN  urlQueue' = s.q /\ depthMap' = s.d
                                    ELSE urlQueue' = rest /\ depthMap' = depthMap
                        ELSE /\ urlQueue' = rest
                             /\ UNCHANGED <<depthMap, extracts>>

(***************************************************************************)
(* runParallelCrawl.  The dispatching loop, the goroutines it launches and *)
(* the collector of resultsChan run concurrently; the session has no lock. *)
(* An unsynchronised statement is modelled by its reads and its write as   *)
(* separate steps: cs.urlQueue = append(cs.urlQueue, url) reads the slice  *)
(* and later writes back the slice it read with url appended (AddURL's     *)
(* write of depthMap is one step with it), and GetNextURL reads the slice  *)
(* and later writes back its tail.                                         *)
(***************************************************************************)
NewTask(url, depth) ==
  [url |-> url, depth |-> depth, pc |-> "wait", links |-> <<>>, snap |-> <<>>]

InFlightPcs == {"capture", "extract", "add", "write"}

\* GetNextURL, first half: the emptiness test and the read of the slice.
ParGetNextURL ==
  /\ phase = "par"
  /\ dqSnap = None
  /\ IF urlQueue = <<>>
       THEN phase' = "wait" /\ dqSnap' = dqSnap
       ELSE phase' = phase /\ dqSnap' = urlQueue
  /\ UNCHANGED <<inputVars, sessionVars, resultsChan, semaphore, tasks,
                 captures, extracts, report, mergeVars>>

\* A variant: the dispatching loop leaving MarkVisited to the task it launches.
ParDispatchWithoutMark ==
  /\ phase = "par"
  /\ dqSnap # None
  /\ LET url == Head(dqSnap)
         depth == DepthOf(url)
     IN
     /\ urlQueue' = Tail(dqSnap)
     /\ dqSnap' = None
     /\ IF \/ depth > MaxDepth
           \/ normalizedURL(url) \in visitedURLs
           \/ normalizedURL(url) \in existingURLs
           \/ ShouldSkipURL(url, config.SkipPatterns)
          THEN UNCHANGED <<visitedURLs, tasks>>
          ELSE /\ Len(tasks) < MaxTasks
               /\ visitedURLs' = visitedURLs
               /\ tasks' = Append(tasks, NewTask(url, depth))
  /\ UNCHANGED <<inputVars, phase, existingURLs, depthMap, results, resultsChan,
                 semaphore, captures, extracts, report, mergeVars>>

\* A variant: the dispatching loop marking the URL visited before its tests.
ParDispatchMarksFirst ==
  /\ phase = "par"
  /\ dqSnap # None
  /\ LET url == Head(dqSnap)
         depth == DepthOf(url)
     IN
     /\ urlQueue' = Tail(dqSnap)
     /\ dqSnap' = None
     /\ visitedURLs' = visitedURLs \cup {normalizedURL(url)}
     /\ IF \/ depth > MaxDepth
           \/ normalizedURL(url) \in visitedURLs
           \/ normalizedURL(url) \in existingURLs
           \/ ShouldSkipURL(url, config.SkipPatterns)
          THEN UNCHANGED tasks
          ELSE /\ Len(tasks) < MaxTasks
               /\ tasks' = Append(tasks, NewTask(url, depth))
  /\ UNCHANGED <<inputVars, phase, existingURLs, depthMap, results, resultsChan,
                 semaphore, captures, extracts, report, mergeVars>>

\* GetNextURL, second half, and the rest of the iteration up to the go statement.
ParDispatch ==
  /\ phase = "par"
  /\ dqSnap # None
  /\ LET url == Head(dqSnap)
         depth == DepthOf(url)
     IN
     /\ urlQueue' = Tail(dqSnap)
     /\ dqSnap' = None
     /\ IF \/ depth > MaxDepth
           \/ normalizedURL(url) \in visitedURLs
           \/ normalizedURL(url) \in existingURLs
           \/ ShouldSkipURL(url, config.SkipPatterns)
          THEN UNCHANGED <<visitedURLs, tasks>>
          ELSE /\ Len(tasks) < MaxTasks
               /\ visitedURLs' = visitedURLs \cup {normalizedURL(url)}
               /\ tasks' = Append(tasks, NewTask(url, depth))
  /\ UNCHANGED <<inputVars, phase, existingURLs, depthMap, results, resultsChan,
                 semaphore, captures, extracts, report, mergeVars>>

SetTask(i, t) == [tasks EXCEPT ![i] = t]

\* A variant: a goroutine that does not wait for a token.
NeverBlocks == TRUE

\* semaphore <- struct{}{} : blocks while the channel holds ParallelWorkers tokens.
CanAcquire == semaphore < config.ParallelWorkers

Acquire(i) ==
  /\ tasks[i].pc = "wait"
  /\ CanAcquire
  /\ semaphore' = semaphore + 1
  /\ tasks' = SetTask(i, [tasks[i] EXCEPT !.pc = "capture"])
  /\ UNCHANGED <<inputVars, phase, sessionVars, resultsChan, dqSnap,
                 captures, extracts, report, mergeVars>>

\* CaptureScreenshot returns and the result is sent; a goroutine that does not
\* go on to the links returns here (the deferred release and wg.Done).
Capture(i) ==
  /\ tasks[i].pc = "capture"
  /\ Len(resultsChan) < ResultsChanCap
  /\ captures' = Append(captures, [url |-> tasks[i].url, depth |-> tasks[i].depth])
  /\ \E result \in CaptureOutcomes(tasks[i].url) :
       /\ resultsChan' = Append(resultsChan, result)
       /\ IF FollowsLinks(result, tasks[i].depth)
            THEN /\ tasks' = SetTask(i, [tasks[i] EXCEPT !.pc = "extract"])
                 /\ semaphore' = semaphore
            ELSE /\ tasks' = SetTask(i, [tasks[i] EXCEPT !.pc = "done"])
                 /\ semaphore' = semaphore - 1
  /\ UNCHANGED <<inputVars, phase, sessionVars, dqSnap, extracts, report, mergeVars>>

\* A variant: the links taken from ExtractLinks whatever error it returned.
ExtractIgnoringError(i) ==
  /\ tasks[i].pc = "extract"
  /\ \E linksOk \in BOOLEAN :
       LET links == ExtractLinks(site[PageOf(tasks[i].url)])
       IN  /\ extracts' = extracts \cup
                 {[url |-> tasks[i].url, depth |-> tasks[i].depth, ok |-> linksOk]}
           /\ IF links = <<>>
                THEN /\ tasks' = SetTask(i, [tasks[i] EXCEPT !.pc = "done"])
                     /\ semaphore' = semaphore - 1
                ELSE /\ tasks' = SetTask(i, [tasks[i] EXCEPT !.pc = "add", !.links = links])
                     /\ semaphore' = semaphore
  /\ UNCHANGED <<inputVars, phase, sessionVars, resultsChan, dqSnap,
                 captures, report, mergeVars>>

\* ExtractLinks returns.
Extract(i) ==
  /\ tasks[i].pc = "extract"
  /\ \E linksOk \in BOOLEAN :
       LET links == IF linksOk THEN ExtractLinks(site[PageOf(tasks[i].url)]) ELSE <<>>
       IN  /\ extracts' = extracts \cup
                 {[url |-> tasks[i].url, depth |-> tasks[i].depth, ok |-> linksOk]}
           /\ IF links = <<>>
                THEN /\ tasks' = SetTask(i, [tasks[i] EXCEPT !.pc = "done"])
                     /\ semaphore' = semaphore - 1
                ELSE /\ tasks' = SetTask(i, [tasks[i] EXCEPT !.pc = "add", !.links = links])
                     /\ semaphore' = semaphore
  /\ UNCHANGED <<inputVars, phase, sessionVars, resultsChan, dqSnap,
                 captures, report, mergeVars>>

\* The task after the link at the head of its list: the next link, or the return.
AfterLink(t) ==
  IF Len(t.links) > 1
    THEN [t EXCEPT !.pc = "add", !.links = Tail(t.links), !.snap = <<>>]
    ELSE [t EXCEPT !.pc = "done", !.links = <<>>, !.snap = <<>>]

Released(t) == IF AfterLink(t).pc = "done" THEN 1 ELSE 0

\* addNewLinksToQueue on one link: its tests, AddURL's test, and append's read.
AddRead(i) ==
  /\ tasks[i].pc = "add"
  /\ LET t == tasks[i]
         fixedLink == FixRelativeURL(Head(t.links), BaseURL)
     IN  IF /\ LinkAccepted(Head(t.links), visitedURLs, existingURLs, config.SkipPatterns)
            /\ fixedLink \notin visitedURLs
            /\ fixedLink \notin existingURLs
           THEN /\ tasks' = SetTask(i, [t EXCEPT !.pc = "write", !.snap = urlQueue])
                /\ semaphore' = semaphore
           ELSE /\ tasks' = SetTask(i, AfterLink(t))
                /\ semaphore' = semaphore - Released(t)
  /\ UNCHANGED <<inputVars, phase, sessionVars, resultsChan, dqSnap,
                 captures, extracts, report, mergeVars>>

\* cs.urlQueue = append(...): the write of the slice, and cs.depthMap[url] = depth.
AddWrite(i) ==
  /\ tasks[i].pc = "write"
  /\ LET fixedLink == FixRelativeURL(Head(tasks[i].links), BaseURL)
     IN  /\ urlQueue' = Append(tasks[i].snap, fixedLink)
         /\ depthMap' = Put(depthMap, fixedLink, tasks[i].depth + 1)
  /\ tasks' = SetTask(i, AfterLink(tasks[i]))
  /\ semaphore' = semaphore - Released(tasks[i])
  /\ UNCHANGED <<inputVars, phase, visitedURLs, existingURLs, results,
                 resultsChan, dqSnap, captures, extracts, report, mergeVars>>

Worker ==
  /\ phase \in {"par", "wait"}
  /\ \E i \in 1..Len(tasks) :
       \/ Acquire(i)
       \/ Capture(i)
       \/ Extract(i)
       \/ AddRead(i)
       \/ AddWrite(i)

\* A variant: a collector that puts the result in front of the list.
CollectorPrepends ==
  /\ phase \in {"par", "wait", "crawled"}
  /\ resultsChan # <<>>
  /\ results' = <<Head(resultsChan)>> \o results
  /\ resultsChan' = Tail(resultsChan)
  /\ UNCHANGED <<inputVars, phase, visitedURLs, existingURLs, urlQueue, depthMap,
                 semaphore, tasks, dqSnap, captures, extracts, report, mergeVars>>

\* The collector goroutine: for result := range resultsChan { AddResult(result) }
Collector ==
  /\ phase \in {"par", "wait", "crawled"}
  /\ resultsChan # <<>>
  /\ results' = Append(results, Head(resultsChan))
  /\ resultsChan' = Tail(resultsChan)
  /\ UNCHANGED <<inputVars, phase, visitedURLs, existingURLs, urlQueue, depthMap,
                 semaphore, tasks, dqSnap, captures, extracts, report, mergeVars>>

\* wg.Wait() returns, close(resultsChan), return nil.
WaitGroupDone ==
  /\ phase = "wait"
  /\ \A i \in 1..Len(tasks) : tasks[i].pc = "done"
  /\ phase' = "crawled"
  /\ UNCHANGED <<inputVars, sessionVars, parVars, captures, extracts, report, mergeVars>>

\* Two goroutines in one Go map at once, one of them writing: the runtime may
\* stop the process ("concurrent map read and map write", "concurrent map
\* writes"), and the memory of the session is gone with it.  visitedURLs is
\* written by the dispatching loop and read by addNewLinksToQueue; depthMap is
\* written by AddURL and read by GetNextURL.
MapRace ==
  \/ /\ phase = "par"
     /\ \E i \in 1..Len(tasks) : tasks[i].pc \in {"add", "write"}
  \/ \E i, j \in 1..Len(tasks) :
       i # j /\ tasks[i].pc = "write" /\ tasks[j].pc = "write"

Crash ==
  /\ phase \in {"par", "wait"}
  /\ MapRace
  /\ phase' = "crashed"
  /\ visitedURLs' = {} /\ existingURLs' = {} /\ urlQueue' = <<>>
  /\ depthMap' = EmptyMap /\ results' = <<>>
  /\ resultsChan' = <<>> /\ semaphore' = 0 /\ tasks' = <<>> /\ dqSnap' = None
  /\ UNCHANGED <<inputVars, captures, extracts, report, mergeVars>>

\* AppService.GenerateReport
WriteReport ==
  /\ phase = "crawled"
  /\ report' = Some(GenerateReport(results, priorReport))
  /\ phase' = "reported"
  /\ UNCHANGED <<inputVars, sessionVars, parVars, captures, extracts, mergeVars>>

Next ==
  \/ Initialize
  \/ DiscoverURLs
  \/ CrawlWebsite
  \/ runSequentialCrawl
  \/ ParGetNextURL
  \/ ParDispatch
  \/ Worker
  \/ Collector
  \/ WaitGroupDone
  \/ Crash
  \/ WriteReport

Spec == Init /\ [][Next]_vars


(***************************************************************************)
(* The report merge on its own: run A merged into no report, run B merged  *)
(* into the result, and the concatenation A ++ B merged into no report.    *)
(***************************************************************************)
MergeResults ==
  { Success(Page("a"), sz, d) : sz \in {2, 5}, d \in {1, 2} }
    \cup { Failure(Page("b"), e, d) : e \in CaptureErrors, d \in {1, 2} }

RunLists == UNION { [1..n -> MergeResults] : n \in 0..MaxRunLen }

MergeInit ==
  /\ config = [BaseURL |-> RootURL, MaxDepth |-> 1, ParallelWorkers |-> 1,
               SkipPatterns |-> {}]
  /\ site = [p \in PageNames |-> <<>>]
  /\ discovery = [CheckSitemap |-> FALSE, CheckRobots |-> FALSE,
                  sitemap |-> {}, robots |-> {}, fetch |-> AllServed]
  /\ priorReport = None
  /\ startup = "ok"
  /\ urlStrs = <<>>
  /\ phase = "merge"
  /\ visitedURLs = {}
  /\ existingURLs = {}
  /\ urlQueue = <<>>
  /\ depthMap = EmptyMap
  /\ results = <<>>
  /\ resultsChan = <<>>
  /\ semaphore = 0
  /\ tasks = <<>>
  /\ dqSnap = None
  /\ captures = <<>>
  /\ extracts = {}
  /\ report = None
  /\ runA \in RunLists
  /\ runB \in RunLists
  /\ rep1 = None /\ rep2 = None /\ repAB = None

crawlVars == <<inputVars, phase, sessionVars, parVars, captures, extracts, report>>

\* The first run: no report on disk.
MergeFirst ==
  /\ rep1 = None
  /\ rep1' = Some(GenerateReport(runA, None))
  /\ UNCHANGED <<crawlVars, runA, runB, rep2, repAB>>

\* The second run: the first run's report on disk.
MergeSecond ==
  /\ rep1 # None /\ rep2 = None
  /\ rep2' = Some(GenerateReport(runB, rep1))
  /\ UNCHANGED <<crawlVars, runA, runB, rep1, repAB>>

\* One run that produced both lists.
MergeCombined ==
  /\ repAB = None
  /\ repAB' = Some(GenerateReport(runA \o runB, None))
  /\ UNCHANGED <<crawlVars, runA, runB, rep1, rep2>>

MergeNext == MergeFirst \/ MergeSecond \/ MergeCombined

MergeSpec == MergeInit /\ [][MergeNext]_vars


(***************************************************************************)
(* Claims                                                                  *)
(***************************************************************************)
Parallel == config.ParallelWorkers > 1
Returned == phase \in {"crawled", "reported"}
InQueue(u) == \E k \in 1..Len(urlQueue) : urlQueue[k] = u
Enqueued == DOMAIN depthMap

PriorSuccessURLs ==
  IF priorReport = None THEN {}
  ELSE { priorReport[1].Results[i].URL :
           i \in { j \in 1..Len(priorReport[1].Results) :
                     priorReport[1].Results[j].Success } }

\* C1: no two capture calls of a run, and no two launched tasks, are for URLs
\* with the same normalized form, in sequential and in parallel mode.
C1_NoDuplicateDispatch ==
  /\ \A i, j \in 1..Len(captures) :
       i # j => NormalizeURL(captures[i].url) # NormalizeURL(captures[j].url)
  /\ \A i, j \in 1..Len(tasks) :
       i # j => NormalizeURL(tasks[i].url) # NormalizeURL(tasks[j].url)

\* A parallel crawl has returned with its queue drained; two different URLs of
\* one normalized form were enqueued and one of them was captured.
C1_Witness ==
  /\ Parallel /\ Returned /\ urlQueue = <<>>
  /\ \E i \in 1..Len(captures) : \E u \in Enqueued :
       /\ u # captures[i].url
       /\ NormalizeURL(u) = NormalizeURL(captures[i].url)

\* C2 (as claimed): whenever runParallelCrawl has returned, the queue is empty:
\* every URL a task enqueued was dequeued before the return.
C2_ReturnsOnlyWhenDrained ==
  (Parallel /\ Returned) => urlQueue = <<>>

\* C3: in parallel mode at most ParallelWorkers tasks are between the start of
\* their capture call and the end of their work.
C3_AtMostNInFlight ==
  Cardinality({ i \in 1..Len(tasks) : tasks[i].pc \in InFlightPcs })
    <= config.ParallelWorkers

\* ParallelWorkers tasks are in flight and one more launched task waits.
C3_Witness ==
  /\ Parallel
  /\ Cardinality({ i \in 1..Len(tasks) : tasks[i].pc \in InFlightPcs })
       = config.ParallelWorkers
  /\ \E i \in 1..Len(tasks) : tasks[i].pc = "wait"

\* C4: every capture call and every launched task has a depth of at most the
\* configured maximum depth.
C4_DepthWithinMax ==
  /\ \A i \in 1..Len(captures) : captures[i].depth <= config.MaxDepth
  /\ \A i \in 1..Len(tasks) : tasks[i].depth <= config.MaxDepth

\* A URL seeded by discovery and a URL found by following links were both
\* captured at the maximum depth, and the crawl went no deeper.
C4_Witness ==
  /\ Returned
  /\ \E i \in 1..Len(captures) :
       /\ captures[i].depth = config.MaxDepth
       /\ captures[i].url \in DiscoveredSet(discovery)
  /\ \E i \in 1..Len(captures) :
       /\ captures[i].depth = config.MaxDepth
       /\ captures[i].url \notin DiscoveredSet(discovery)
       /\ \E e \in extracts : e.ok /\ e.depth = config.MaxDepth - 1

\* C5 (as claimed): while a URL waits in the queue no step changes the depth
\* assigned to it, so dequeue returns the depth of its first enqueue.
C5_DepthFixedAtFirstEnqueue ==
  [][\A u \in DOMAIN depthMap \cap DOMAIN depthMap' :
        InQueue(u) => depthMap'[u] = depthMap[u]]_vars

\* C6 (as claimed): no capture call is for a URL whose normalized form is that
\* of a URL the prior report records as successfully captured.
C6_PriorSuccessNeverDispatched ==
  \A i \in 1..Len(captures) :
    NormalizeURL(captures[i].url) \notin { NormalizeURL(u) : u \in PriorSuccessURLs }

\* A step that changes the queue as a pop, appends, or a pop and appends would.
SerializedQueueStep ==
  phase \in {"par", "wait"} =>
    \E k \in {0, 1} :
      /\ k <= Len(urlQueue)
      /\ Len(urlQueue') >= Len(urlQueue) - k
      /\ SubSeq(urlQueue', 1, Len(urlQueue) - k)
           = SubSeq(urlQueue, k + 1, Len(urlQueue))

\* C7 (as claimed): in parallel mode every step changes the queue as serialized
\* operations would: it keeps the queue, or its tail, and appends to it.
C7_QueueUpdatesSerialized == [][SerializedQueueStep]_vars

\* C8 (as claimed): the report of a parallel run holds the outcome of every
\* capture that completed in the run.
C8_ReportHoldsEveryOutcome ==
  (Parallel /\ report # None) =>
    report[1].NewPagesInThisRun = Len(captures)

\* C9: with no previous report the merged list is this run's list; otherwise
\* it is the previous list, entry by entry, followed by this run's list, entry
\* by entry.
C9_MergedListIsConcatenation ==
  /\ rep1 # None => rep1[1].Results = runA
  /\ rep2 # None =>
       LET prev == rep1[1].Results
           merged == rep2[1].Results
       IN  /\ Len(merged) = Len(prev) + Len(runB)
           /\ \A i \in 1..Len(prev) : merged[i] = prev[i]
           /\ \A j \in 1..Len(runB) : merged[Len(prev) + j] = runB[j]

\* Both merges were made, and the second run repeats a URL of the first.
C9_Witness ==
  /\ rep1 # None /\ rep2 # None
  /\ \E i \in 1..Len(runA) : \E j \in 1..Len(runB) : runA[i].URL = runB[j].URL

Totals(r) ==
  <<r.TotalPages, r.SuccessfulScreenshots, r.FailedScreenshots,
    r.TotalDuration, r.AveragePageSize>>

\* C10: merging A into no report and B into the result gives the totals of one
\* merge of A ++ B.
C10_MergeAppendable ==
  (rep2 # None /\ repAB # None) => Totals(rep2[1]) = Totals(repAB[1])

\* Both sides were computed for two runs that each hold a success and a
\* failure, with sizes 2 and 5 whose average does not divide evenly.
C10_Witness ==
  /\ rep2 # None /\ repAB # None
  /\ \E i \in 1..Len(runA) : runA[i].Success /\ runA[i].FileSize = 2
  /\ \E i \in 1..Len(runA) : ~runA[i].Success
  /\ \E j \in 1..Len(runB) : runB[j].Success /\ runB[j].FileSize = 5
  /\ \E j \in 1..Len(runB) : ~runB[j].Success
  /\ repAB[1].SuccessfulScreenshots = 2
  /\ repAB[1].AveragePageSize = 3
  /\ rep2[1].AveragePageSize * rep2[1].SuccessfulScreenshots
       # rep1[1].AveragePageSize * rep1[1].SuccessfulScreenshots
           + GenerateReport(runB, None).AveragePageSize
               * GenerateReport(runB, None).SuccessfulScreenshots

RECURSIVE SuccessBytes(_)
\* The summed file size of the successful entries of a result list.
SuccessBytes(rs) ==
  IF rs = <<>> THEN 0
  ELSE (IF Head(rs).Success THEN Head(rs).FileSize ELSE 0) + SuccessBytes(Tail(rs))

SuccessCount(rs) == Cardinality({ i \in 1..Len(rs) : rs[i].Success })

MergedReports == { r[1] : r \in {rep1, rep2, repAB} \ {None} }

\* C11: in every merged report the average page size is the integer quotient
\* of the successful entries' summed file size by their number, so that
\* average * count is at most the sum and less than count below it, and the
\* average is 0 when no entry is successful.
C11_AverageIsQuotient ==
  \A r \in MergedReports :
    LET total == SuccessBytes(r.Results)
        n == SuccessCount(r.Results)
    IN  /\ r.SuccessfulScreenshots = n
        /\ n = 0 => r.AveragePageSize = 0
        /\ n > 0 => /\ r.AveragePageSize * n <= total
                    /\ total - r.AveragePageSize * n < n

\* A merged report over a prior report, holding a failed entry and successful
\* entries whose sizes do not divide evenly.
C11_Witness ==
  /\ rep2 # None
  /\ \E i \in 1..Len(rep2[1].Results) : ~rep2[1].Results[i].Success
  /\ SuccessCount(rep2[1].Results) = 2
  /\ SuccessBytes(rep2[1].Results) = 7
  /\ rep2[1].AveragePageSize = 3

\* The outcomes produced so far, in the order of the capture calls: those the
\* session holds, then those on their way to it in resultsChan.
Outcomes == results \o resultsChan

FailedCaptures == { i \in 1..Len(Outcomes) : ~Outcomes[i].Success }

\* Each capture call has produced one outcome for its URL; a failed one carries
\* the Renderer's error text, its URL was captured once, and ExtractLinks was
\* not called for it.
FailureIsolated ==
  phase \in {"seq", "par", "wait", "crawled", "reported"} =>
    /\ Len(Outcomes) = Len(captures)
    /\ \A i \in 1..Len(captures) : Outcomes[i].URL = captures[i].url
    /\ \A i \in FailedCaptures :
         /\ Outcomes[i].Error \in CaptureErrors
         /\ \A j \in 1..Len(captures) : j # i => captures[j].url # captures[i].url
         /\ \A e \in extracts : e.url # captures[i].url

\* A step in which a capture call fails: it enqueues nothing and assigns no
\* depth, the scheduler stays in its loop with the next queue entry at the
\* head of the queue, and no other task is touched.
FailedCaptureStep ==
  (/\ Len(captures') = Len(captures) + 1
   /\ ~Outcomes'[Len(Outcomes')].Success)
    => /\ phase' = phase
       /\ depthMap' = depthMap
       /\ extracts' = extracts
       /\ urlQueue' = IF phase = "seq" THEN Tail(urlQueue) ELSE urlQueue
       /\ Len(tasks') = Len(tasks)
       /\ \A j \in 1..Len(tasks) :
            tasks'[j] = tasks[j] \/ (tasks[j].pc = "capture" /\ tasks'[j].pc = "done")

\* C12: a capture failure affects only its URL: one failed outcome with the
\* error text is produced, the URL is not captured again, the run goes on with
\* the next queue entry, and no link of the failed page is enqueued.
C12_FailureAffectsOnlyItsURL == []FailureIsolated /\ [][FailedCaptureStep]_vars

\* A capture of a page with links failed at a depth below the maximum, and a
\* later capture was made.
C12_Witness ==
  \E i \in FailedCaptures :
    /\ i < Len(captures)
    /\ captures[i].depth < config.MaxDepth
    /\ ExtractLinks(site[PageOf(captures[i].url)]) # <<>>

\* The site whose root links to two pages that link nowhere (/about and
\* /contact of the scenario are the pages a and b).
ThreePageSite ==
  [p \in PageNames |-> CASE p = "" -> <<Page("a"), Page("b")>> [] OTHER -> <<>>]

NoDiscovery == ~discovery.CheckSitemap /\ ~discovery.CheckRobots

\* A fresh crawl of the three-page site, every capture and every link
\* extraction made having succeeded, with its report written.
FreshCrawlReported ==
  /\ priorReport = None
  /\ site = ThreePageSite
  /\ NoDiscovery
  /\ config.SkipPatterns = {}
  /\ config.MaxDepth = MaxDepthBound
  /\ report # None
  /\ \A i \in 1..Len(Outcomes) : Outcomes[i].Success
  /\ \A e \in extracts : e.ok

ThreePagesReported ==
  /\ report[1].TotalPages = 3
  /\ report[1].SuccessfulScreenshots = 3
  /\ report[1].NewPagesInThisRun = 3

\* C13 (as claimed): a fresh crawl of the three-page site with every capture
\* succeeding reports three pages, three successes and three new pages, for
\* any concurrency.
C13_FreshCrawlReportsThreePages == FreshCrawlReported => ThreePagesReported

\* The same for the sequential scheduler alone.
C13_SequentialReportsThreePages ==
  (FreshCrawlReported /\ ~Parallel) => ThreePagesReported

(***************************************************************************)
(* Two runs of the program on the same site with the same configuration,   *)
(* the first of which captured every page: the second process starts with  *)
(* the report.json the first one saved.                                    *)
(* saveJSONReport and LoadExistingReport give back every field read here   *)
(* as it was written (a field left out by omitempty reads as its zero      *)
(* value, which is the value that was left out).                           *)
(***************************************************************************)
\* The pages of the site, by their normalized URL.
SitePages == { NormalizeURL(BaseURL), NormalizeURL(Page("a")), NormalizeURL(Page("b")) }

\* The report holds a successful capture of every page and no failed one.
AllPagesCaptured(r) ==
  /\ \A i \in 1..Len(r.Results) : r.Results[i].Success
  /\ SitePages \subseteq { NormalizeURL(r.Results[i].URL) : i \in 1..Len(r.Results) }

RerunInit == Init /\ priorReport = None

\* The process ends after its report; when that report holds every page of the
\* site, the program is run again, and the new process starts with a new
\* session.
Rerun ==
  /\ phase = "reported"
  /\ rep1 = None
  /\ AllPagesCaptured(report[1])
  /\ rep1' = report
  /\ priorReport' = report
  /\ phase' = "start"
  /\ visitedURLs' = {} /\ existingURLs' = {} /\ urlQueue' = <<>>
  /\ depthMap' = EmptyMap /\ results' = <<>>
  /\ resultsChan' = <<>> /\ semaphore' = 0 /\ tasks' = <<>> /\ dqSnap' = None
  /\ captures' = <<>> /\ extracts' = {} /\ report' = None
  /\ UNCHANGED <<config, site, discovery, startup, urlStrs, runA, runB, rep2, repAB>>

RerunNext == Next \/ Rerun

RerunSpec == RerunInit /\ [][RerunNext]_vars

InSecondRun == rep1 # None

\* C14: in a run that follows a run which captured every page of the site
\* successfully, no capture call is made, and the report it writes has no new
\* page and the total, success and failure counts of the prior report.
C14_RerunDispatchesNothing ==
  (InSecondRun /\ AllPagesCaptured(rep1[1])) =>
    /\ captures = <<>>
    /\ tasks = <<>>
    /\ report # None =>
         /\ report[1].NewPagesInThisRun = 0
         /\ report[1].TotalPages = rep1[1].TotalPages
         /\ report[1].SuccessfulScreenshots = rep1[1].SuccessfulScreenshots
         /\ report[1].FailedScreenshots = rep1[1].FailedScreenshots

\* The second run has written its report; the first run, with discovery on,
\* captured every page, one of them under a URL that is not its normalized
\* form.
C14_Witness ==
  /\ InSecondRun /\ AllPagesCaptured(rep1[1])
  /\ report # None
  /\ discovery.CheckSitemap
  /\ \E i \in 1..Len(rep1[1].Results) :
       rep1[1].Results[i].URL # NormalizeURL(rep1[1].Results[i].URL)

\* The URL a step takes from the queue, as a sequence of at most one element:
\* the head in an iteration of the sequential loop, the head of the slice
\* GetNextURL read in an iteration of the dispatching loop.
Dequeued ==
  IF phase = "seq" /\ urlQueue # <<>> THEN <<Head(urlQueue)>>
  ELSE IF phase = "par" /\ phase' = "par" /\ dqSnap # None /\ dqSnap' = None
         THEN <<Head(dqSnap)>>
  ELSE <<>>

SkipMatched(url) == ShouldSkipURL(url, config.SkipPatterns)

\* No capture call was made, and no task launched, for a skip-matched URL.
NoSkipMatchedDispatch ==
  /\ \A i \in 1..Len(captures) : ~SkipMatched(captures[i].url)
  /\ \A i \in 1..Len(tasks) : ~SkipMatched(tasks[i].url)

\* A step that dequeues a skip-matched URL leaves it marked visited and
\* launches nothing.
SkipMatchedStep ==
  \A k \in 1..Len(Dequeued) :
    SkipMatched(Dequeued[k]) =>
      /\ NormalizeURL(Dequeued[k]) \in visitedURLs'
      /\ captures' = captures
      /\ tasks' = tasks

\* C15 (as claimed): a dequeued URL that a skip pattern matches is marked
\* visited and the Renderer is never invoked for it, under either scheduler.
C15_SkipMatchedMarkedVisited == []NoSkipMatchedDispatch /\ [][SkipMatchedStep]_vars

\* The same for the sequential scheduler alone.
C15_SequentialSkipMarksVisited ==
  []NoSkipMatchedDispatch /\ [][phase = "seq" => SkipMatchedStep]_vars

\* C16 (as claimed): when the crawl has ended, the visited set has as many
\* elements as capture calls were made, and holds the normalized URL of each.
C16_VisitedIsTheDispatched ==
  Returned =>
    /\ Cardinality(visitedURLs) = Len(captures)
    /\ visitedURLs = { NormalizeURL(captures[i].url) : i \in 1..Len(captures) }

\* The same for the parallel scheduler alone.
C16_ParallelVisitedIsTheDispatched ==
  (Returned /\ Parallel) =>
    /\ Cardinality(visitedURLs) = Len(captures)
    /\ visitedURLs = { NormalizeURL(captures[i].url) : i \in 1..Len(captures) }

\* The entries a step appends to the queue: in an iteration of the sequential
\* loop what follows the tail of the old queue, in a worker's write of the
\* slice the element it appended.
Appended ==
  IF phase = "seq" /\ urlQueue # <<>>
    THEN SubSeq(urlQueue', Len(urlQueue), Len(urlQueue'))
  ELSE IF /\ phase \in {"par", "wait"} /\ phase' = phase
          /\ \E i \in 1..Len(tasks) : tasks[i].pc = "write" /\ tasks'[i].pc # "write"
    THEN <<urlQueue'[Len(urlQueue')]>>
  ELSE <<>>

NoVisitedAppended ==
  \A k \in 1..Len(Appended) : NormalizeURL(Appended[k]) \notin visitedURLs'

\* C17 (as claimed): no step appends to the queue a URL whose normalized form
\* is in the visited set, under either scheduler.
C17_NoEnqueueOfVisited == [][NoVisitedAppended]_vars

\* The same for the sequential scheduler alone.
C17_SequentialNoEnqueueOfVisited == [][phase = "seq" => NoVisitedAppended]_vars

\* The URLs the prior report records as successfully captured, normalized.
PreExisting == { NormalizeURL(u) : u \in PriorSuccessURLs }

\* A link the crawl has to follow: in scope, not skip-matched, not pre-existing.
Eligible(u) ==
  /\ IsValidURL(u, BaseURL)
  /\ ~SkipMatched(u)
  /\ NormalizeURL(u) \notin PreExisting

\* The links of a page, resolved against the base URL.
LinksOf(p) ==
  { FixRelativeURL(site[PageOf(p)][k], BaseURL) : k \in 1..Len(site[PageOf(p)]) }

\* The pages one link hop from the pages of S, by their normalized URL.
Hop(S) ==
  UNION { { NormalizeURL(l) : l \in { x \in LinksOf(p) : Eligible(x) } } : p \in S }

RECURSIVE ReachWithin(_)
\* The pages within n link hops of the seed.
ReachWithin(n) ==
  IF n = 0
    THEN IF Eligible(BaseURL) THEN {NormalizeURL(BaseURL)} ELSE {}
    ELSE ReachWithin(n - 1) \cup Hop(ReachWithin(n - 1))

CapturedPages == { NormalizeURL(captures[i].url) : i \in 1..Len(captures) }

AllSucceeded ==
  /\ \A i \in 1..Len(Outcomes) : Outcomes[i].Success
  /\ \A e \in extracts : e.ok

\* C18 (as claimed): when the crawl has ended and every capture and link
\* extraction succeeded, every eligible page within MaxDepth link hops of the
\* seed has been dispatched for capture.
C18_ReachablePagesDispatched ==
  (Returned /\ AllSucceeded) => ReachWithin(config.MaxDepth) \subseteq CapturedPages

\* The same for the sequential scheduler alone.
C18_SequentialReachableDispatched ==
  (Returned /\ ~Parallel /\ AllSucceeded)
    => ReachWithin(config.MaxDepth) \subseteq CapturedPages

\* The same for the sequential scheduler with discovery switched off.
C18_SequentialWithoutDiscovery ==
  (Returned /\ ~Parallel /\ NoDiscovery /\ AllSucceeded)
    => ReachWithin(config.MaxDepth) \subseteq CapturedPages

\* While the process lives, the session's results are the outcomes of the
\* first capture calls, in the order of the calls, each once.
ResultsOfCaptures ==
  phase # "crashed" =>
    /\ Len(Outcomes) = Len(captures)
    /\ \A i \in 1..Len(results) : results[i].URL = captures[i].url

\* A step of the living process keeps every entry of results in its place and
\* appends at most one: the outcome CaptureScreenshot returned in this step, or
\* the one the collector took from resultsChan.
ResultsGrowStep ==
  phase' # "crashed" =>
    /\ Len(results') \in {Len(results), Len(results) + 1}
    /\ SubSeq(results', 1, Len(results)) = results
    /\ Len(results') = Len(results) + 1 =>
         LET entry == results'[Len(results')]
         IN  \/ /\ Len(captures') = Len(captures) + 1
                /\ entry \in CaptureOutcomes(captures'[Len(captures')].url)
             \/ /\ resultsChan # <<>>
                /\ entry = Head(resultsChan)
                /\ resultsChan' = Tail(resultsChan)
                /\ captures' = captures

\* C19: the results list only grows: a step leaves its entries unchanged and
\* in place, appends an entry only for a capture call that has completed, and
\* appends one entry per capture call.
C19_ResultsOnlyGrow == []ResultsOfCaptures /\ [][ResultsGrowStep]_vars

\* A parallel crawl whose collector has appended a failed and a successful
\* outcome while another outcome waits in resultsChan.
C19_Witness ==
  /\ Parallel
  /\ \E i \in 1..Len(results) : results[i].Success
  /\ \E i \in 1..Len(results) : ~results[i].Success
  /\ resultsChan # <<>>

StartupFailed == startup # "ok"

\* C20: when a startup check fails the run aborts before crawling: nothing is
\* discovered, enqueued or dispatched, and no report is written.
C20_StartupFailureAborts ==
  StartupFailed =>
    /\ phase \in {"start", "aborted"}
    /\ urlQueue = <<>> /\ depthMap = EmptyMap
    /\ visitedURLs = {} /\ existingURLs = {}
    /\ captures = <<>> /\ extracts = {} /\ tasks = <<>>
    /\ results = <<>> /\ resultsChan = <<>>
    /\ report = None

\* The run has aborted on a failed connection test, with discovery switched on
\* and a prior report on disk.
C20_Witness ==
  /\ phase = "aborted"
  /\ startup = "connection failed"
  /\ discovery.CheckSitemap
  /\ priorReport # None

(***************************************************************************)
(* Termination.  The Go scheduler runs every goroutine that can take a     *)
(* step, and main goes on through Run; the runtime stopping the process on *)
(* a map race is possible and never forced.                                *)
(***************************************************************************)
\* The steps of the program itself.
Scheduled ==
  \/ Initialize
  \/ DiscoverURLs
  \/ CrawlWebsite
  \/ runSequentialCrawl
  \/ ParGetNextURL
  \/ ParDispatch
  \/ Worker
  \/ Collector
  \/ WaitGroupDone
  \/ WriteReport

LiveSpec == Init /\ [][Next]_vars /\ WF_vars(Scheduled)

Crawling == phase \in {"seq", "par"}

AllTasksDone == \A i \in 1..Len(tasks) : tasks[i].pc = "done"

\* The crawl has returned: the sequential loop with the queue empty, the
\* parallel one with its loop left and every launched task complete.
Terminated ==
  /\ Returned
  /\ IF Parallel THEN AllTasksDone ELSE urlQueue = <<>>

\* C21 (as claimed): every run that starts to crawl terminates, the sequential
\* loop with the queue drained, the parallel loop left and every launched task
\* complete.
C21_EveryRunTerminates == Crawling ~> Terminated

\* The same for the sequential scheduler alone.
C21_SequentialTerminates == (phase = "seq") ~> Terminated

\* Every run that starts to crawl returns or is stopped by the runtime.
C21_TerminatesUnlessStopped == Crawling ~> (Terminated \/ phase = "crashed")

(***************************************************************************)
(* utils.NormalizeURL on its own: a URL string, and NormalizeURL applied to *)
(* it and to each result in turn.                                          *)
(***************************************************************************)
MaxNormalizeCalls == 2

\* Paths: empty, the root, with and without a slash at the end, with two.
NormalizePaths ==
  { <<>>, <<"/">>, <<"/", "/">>,
    <<"/", "a">>, <<"/", "a", "/">>, <<"/", "a", "/", "/">>,
    <<"/", "a", "/", "b">>, <<"/", "a", "/", "b", "/">> }

NormalizeInputs ==
  { U(o, p, q, f) : o \in {BaseOrigin, OtherOrigin}, p \in NormalizePaths,
                    q \in {<<>>, <<"x=1">>}, f \in {<<>>, <<"top">>} }

NormalizeInit ==
  /\ config = [BaseURL |-> RootURL, MaxDepth |-> 1, ParallelWorkers |-> 1,
               SkipPatterns |-> {}]
  /\ site = [p \in PageNames |-> <<>>]
  /\ discovery = [CheckSitemap |-> FALSE, CheckRobots |-> FALSE,
                  sitemap |-> {}, robots |-> {}, fetch |-> AllServed]
  /\ priorReport = None
  /\ startup = "ok"
  /\ urlStrs \in { <<u>> : u \in NormalizeInputs }
  /\ phase = "utils"
  /\ visitedURLs = {}
  /\ existingURLs = {}
  /\ urlQueue = <<>>
  /\ depthMap = EmptyMap
  /\ results = <<>>
  /\ resultsChan = <<>>
  /\ semaphore = 0
  /\ tasks = <<>>
  /\ dqSnap = None
  /\ captures = <<>>
  /\ extracts = {}
  /\ report = None
  /\ runA = <<>> /\ runB = <<>> /\ rep1 = None /\ rep2 = None /\ repAB = None

\* A call of NormalizeURL on the last string.
Normalize ==
  /\ phase = "utils"
  /\ Len(urlStrs) <= MaxNormalizeCalls
  /\ urlStrs' = Append(urlStrs, NormalizeURL(urlStrs[Len(urlStrs)]))
  /\ UNCHANGED <<config, site, discovery, priorReport, startup, phase, sessionVars,
                 parVars, captures, extracts, report, mergeVars>>

NormalizeSpec == NormalizeInit /\ [][Normalize]_vars

\* C22 (as claimed): NormalizeURL applied to its own result gives that result
\* again, for every URL of a scheme, a host, a path, a query and a fragment.
C22_NormalizeIdempotent ==
  Len(urlStrs) >= 3 => urlStrs[3] = urlStrs[2]

\* The same for the paths that do not end in two slashes.
C22_IdempotentWithoutDoubleSlash ==
  (Len(urlStrs) >= 3 /\ ~HasSuffix(urlStrs[1].path, <<"/", "/">>))
    => urlStrs[3] = urlStrs[2]

\* Every launched task has the normalized form of its URL in the visited set.
TasksVisited ==
  \A i \in 1..Len(tasks) : NormalizeURL(tasks[i].url) \in visitedURLs

\* A step that launches a task is a step of the dispatching loop on the URL it
\* dequeued: the URL passed the depth, visited, existing and skip tests on the
\* state before the step, it is marked visited in the state after it, and the
\* task has not begun its capture.  No other step writes the visited set.
LaunchStep ==
  /\ \A i \in (Len(tasks) + 1)..Len(tasks') :
       LET url == tasks'[i].url
       IN  /\ Dequeued = <<url>>
           /\ tasks'[i].depth = DepthOf(url)
           /\ tasks'[i].depth <= config.MaxDepth
           /\ NormalizeURL(url) \notin visitedURLs
           /\ NormalizeURL(url) \notin existingURLs
           /\ ~SkipMatched(url)
           /\ NormalizeURL(url) \in visitedURLs'
           /\ tasks'[i].pc = "wait"
           /\ captures' = captures
  /\ (Parallel /\ visitedURLs' # visitedURLs /\ phase' # "crashed")
       => Len(tasks') = Len(tasks) + 1

\* C23: in parallel mode the tests of a URL and its marking as visited are
\* made by the dispatching loop before the task is launched: whenever a task
\* exists, and so before its capture starts, its normalized URL is visited.
C23_MarkedBeforeLaunch == []TasksVisited /\ [][LaunchStep]_vars

\* Two tasks are launched, one in its capture call and one still waiting for
\* a slot, and a third URL waits in the queue.
C23_Witness ==
  /\ phase = "par"
  /\ \E i, j \in 1..Len(tasks) : tasks[i].pc = "capture" /\ tasks[j].pc = "wait"
  /\ urlQueue # <<>>

(***************************************************************************)
(* The tests of the sequential loop on a dequeued entry, as a function of  *)
(* the entry and the session: what the dispatching loop of the parallel    *)
(* scheduler is compared with.                                             *)
(***************************************************************************)
\* runSequentialCrawl: the entry goes on to CaptureScreenshot.
SequentialDispatches(url, depth) ==
  /\ ~(depth > config.MaxDepth)
  /\ NormalizeURL(url) \notin visitedURLs
  /\ NormalizeURL(url) \notin existingURLs
  /\ ~ShouldSkipURL(url, config.SkipPatterns)

\* runSequentialCrawl: the visited set after its tests of the entry.
SequentialVisitedAfter(url, depth) ==
  IF depth > config.MaxDepth \/ NormalizeURL(url) \in visitedURLs
    THEN visitedURLs
    ELSE visitedURLs \cup {NormalizeURL(url)}

\* The step dispatches the entry it dequeued: a capture call in the sequential
\* loop, a launched task in the dispatching loop.
Dispatches ==
  IF phase = "seq" THEN Len(captures') = Len(captures) + 1
                   ELSE Len(tasks') = Len(tasks) + 1

\* A step that dequeues an entry dispatches it, and leaves the visited set, as
\* the tests of the sequential loop do.
ChecksAsSequential ==
  \A k \in 1..Len(Dequeued) :
    /\ Dispatches <=> SequentialDispatches(Dequeued[k], DepthOf(Dequeued[k]))
    /\ visitedURLs' = SequentialVisitedAfter(Dequeued[k], DepthOf(Dequeued[k]))

\* C24 (as claimed): the dispatching loop of the parallel scheduler treats a
\* dequeued entry as the sequential loop does: the same entries are dispatched
\* and the same URLs marked visited, a pre-existing or skip-matched one
\* included.
C24_ParallelChecksAsSequential == [][phase = "par" => ChecksAsSequential]_vars

\* The sequential loop itself.
C24_SequentialChecks == [][phase = "seq" => ChecksAsSequential]_vars

\* The dispatching loop dispatches an entry exactly when the sequential loop
\* would on the same session.
C24_ParallelDispatchesAsSequential ==
  [][\A k \in 1..Len(Dequeued) :
       phase = "par" =>
         (Dispatches <=> SequentialDispatches(Dequeued[k], DepthOf(Dequeued[k])))]_vars

\* The tasks the dispatching loop has launched and that have not returned.
Unfinished == { i \in 1..Len(tasks) : tasks[i].pc # "done" }

\* C25 (as claimed): the dispatching loop launches no task while
\* ParallelWorkers launched tasks are unfinished, so at most ParallelWorkers
\* launched tasks are unfinished at any time.
C25_LaunchedWithinN ==
  Cardinality(Unfinished) <= config.ParallelWorkers

\* The capture calls so far are in breadth-first order: a capture of the seed
\* is the first call and has depth 0, and no call has a smaller depth than
\* the call before it.
BreadthFirst ==
  /\ \A i \in 1..Len(captures) :
       captures[i].url = BaseURL => (i = 1 /\ captures[i].depth = 0)
  /\ \A i \in 1..Len(captures) : \A j \in 1..Len(captures) :
       i < j => captures[i].depth <= captures[j].depth

\* C26 (as claimed): the sequential scheduler dispatches breadth-first, the
\* seed first at depth 0 and depths never decreasing, with or without URLs
\* seeded by discovery at depth 1.
C26_SequentialBreadthFirst == ~Parallel => BreadthFirst

\* The same with discovery switched off.
C26_BreadthFirstWithoutDiscovery == (~Parallel /\ NoDiscovery) => BreadthFirst

\* The ExtractLinks calls that returned an error.
FailedExtracts == { e \in extracts : ~e.ok }

\* While the process lives, the page of a failed ExtractLinks call has one
\* outcome, and it is a successful one.
ExtractFailureKeepsOutcome ==
  phase # "crashed" =>
    \A e \in FailedExtracts :
      /\ \E i \in 1..Len(Outcomes) : Outcomes[i].URL = e.url
      /\ \A i \in 1..Len(Outcomes) : Outcomes[i].URL = e.url => Outcomes[i].Success

\* A step in which ExtractLinks returns an error: nothing is enqueued and no
\* depth assigned, the outcomes already produced stay as they are, and the
\* scheduler stays in its loop.  In the sequential loop the step is the whole
\* iteration: it appends the page's successful outcome and leaves the next
\* entry at the head of the queue.  In a worker goroutine the step ends the
\* task and touches no other.
FailedExtractStep ==
  \A e \in extracts' \ extracts :
    ~e.ok =>
      /\ phase' = phase
      /\ depthMap' = depthMap
      /\ IF phase = "seq"
           THEN /\ urlQueue' = Tail(urlQueue)
                /\ results' = Append(results, results'[Len(results')])
                /\ results'[Len(results')].URL = e.url
                /\ results'[Len(results')].Success
           ELSE /\ urlQueue' = urlQueue
                /\ results' = results
                /\ resultsChan' = resultsChan
                /\ Len(tasks') = Len(tasks)
                /\ \A j \in 1..Len(tasks) :
                     \/ tasks'[j] = tasks[j]
                     \/ /\ tasks[j].url = e.url
                        /\ tasks[j].pc = "extract"
                        /\ tasks'[j].pc = "done"

\* C27: a failure of ExtractLinks after a successful capture leaves the page's
\* outcome successful and unchanged, enqueues no link of the page, and the run
\* goes on with the next queue entry.
C27_ExtractFailureHarmless ==
  []ExtractFailureKeepsOutcome /\ [][FailedExtractStep]_vars

\* ExtractLinks failed for a page that has links to follow, and a capture of
\* another page was made after the capture of that page.
C27_Witness ==
  \E e \in FailedExtracts :
    /\ ExtractLinks(site[PageOf(e.url)]) # <<>>
    /\ \E i \in 1..Len(captures) : captures[i].url = e.url /\ i < Len(captures)

\* Every ExtractLinks call was made for a URL captured in this run at a depth
\* below the maximum, and, while the process lives, that capture's outcome is a
\* success.
ExtractsFollowCaptures ==
  \A e \in extracts :
    /\ e.depth < config.MaxDepth
    /\ \E i \in 1..Len(captures) : captures[i].url = e.url /\ captures[i].depth = e.depth
    /\ phase # "crashed" =>
         \E i \in 1..Len(Outcomes) : Outcomes[i].URL = e.url /\ Outcomes[i].Success

\* A step in which a worker goroutine's ExtractLinks call returns makes no
\* capture call: the capture of that URL returned, with success, before it.
ExtractAfterCapture ==
  \A e \in extracts' \ extracts :
    phase # "seq" =>
      /\ captures' = captures
      /\ \E i \in 1..Len(Outcomes) : Outcomes[i].URL = e.url /\ Outcomes[i].Success

\* Every entry a step of the crawl appends to the queue is a link of a page
\* whose ExtractLinks call succeeded, and its depth is that page's depth + 1.
EnqueuedAtNextDepth ==
  \A k \in 1..Len(Appended) :
    IF phase = "seq"
      THEN \E e \in extracts' \ extracts :
             e.ok /\ depthMap'[Appended[k]] = e.depth + 1
      ELSE \E i \in 1..Len(tasks) :
             /\ tasks[i].pc = "write" /\ tasks'[i].pc # "write"
             /\ [url |-> tasks[i].url, depth |-> tasks[i].depth, ok |-> TRUE] \in extracts
             /\ depthMap'[Appended[k]] = tasks[i].depth + 1

\* C28: ExtractLinks is called for a URL only after a capture of that URL in
\* this run returned success, and only at a depth below MaxDepth; the links it
\* yields are enqueued at that depth + 1.
C28_ExtractAfterSuccessBelowMax ==
  /\ []ExtractsFollowCaptures
  /\ [][ExtractAfterCapture /\ EnqueuedAtNextDepth]_vars

\* A link found on a page of depth 1 was captured at depth 2, after a capture
\* that failed and was not followed.
C28_Witness ==
  /\ \E e \in extracts : e.ok /\ e.depth = 1
  /\ \E i \in 1..Len(captures) : captures[i].depth = 2
  /\ \E i \in 1..Len(Outcomes) : ~Outcomes[i].Success

(***************************************************************************)
(* The crawl under a depth limit of 0.  main's configureDepth sets a limit *)
(* of 1..10, under which no entry deeper than the limit reaches the queue; *)
(* NewAppService takes any Config, and with MaxDepth 0 the URLs discovery  *)
(* seeds at depth 1 are deeper than the limit.                             *)
(***************************************************************************)
\* The session as NewCrawlSession leaves it, before Run.
NewSession ==
  /\ phase = "start"
  /\ visitedURLs = {}
  /\ existingURLs = {}
  /\ urlQueue = <<>>
  /\ depthMap = EmptyMap
  /\ results = <<>>
  /\ resultsChan = <<>>
  /\ semaphore = 0
  /\ tasks = <<>>
  /\ dqSnap = None
  /\ captures = <<>>
  /\ extracts = {}
  /\ report = None
  /\ urlStrs = <<>>
  /\ runA = <<>> /\ runB = <<>> /\ rep1 = None /\ rep2 = None /\ repAB = None

ShallowDepths == 0..1

ShallowInit ==
  /\ config \in [BaseURL : {RootURL}, MaxDepth : ShallowDepths,
                 ParallelWorkers : 1..MaxWorkers, SkipPatterns : SkipPatternChoices]
  /\ site \in Sites
  /\ discovery \in DiscoveryInputs
  /\ priorReport = None
  /\ startup = "ok"
  /\ NewSession

ShallowSpec == ShallowInit /\ [][Next]_vars

\* A step that dequeues an entry deeper than MaxDepth changes neither the
\* visited set nor the outcomes, and dispatches nothing.
TooDeepStep ==
  \A k \in 1..Len(Dequeued) :
    DepthOf(Dequeued[k]) > config.MaxDepth =>
      /\ visitedURLs' = visitedURLs
      /\ results' = results
      /\ resultsChan' = resultsChan
      /\ captures' = captures
      /\ extracts' = extracts
      /\ tasks' = tasks

\* C29: discarding a dequeued entry because its depth exceeds MaxDepth leaves
\* visited and results unchanged: the URL is not marked visited and no outcome
\* is recorded for it.
C29_TooDeepLeavesNoTrace == [][TooDeepStep]_vars

\* A crawl has returned with its queue drained; a URL enqueued deeper than
\* MaxDepth was dequeued and is not visited, while the seed was captured.
C29_Witness ==
  /\ Returned /\ urlQueue = <<>>
  /\ captures # <<>>
  /\ \E u \in Enqueued :
       /\ depthMap[u] > config.MaxDepth
       /\ NormalizeURL(u) \notin visitedURLs

\* Under the depth limits main accepts no dequeued entry is deeper than
\* MaxDepth.
C29_NoDeepEntryUnderMain ==
  [][\A k \in 1..Len(Dequeued) : DepthOf(Dequeued[k]) <= config.MaxDepth]_vars

(***************************************************************************)
(* The crawl of a target given with a path.  getTargetURL adds the scheme, *)
(* checks the host against DOMAIN_REGEX and returns the URL as typed, with *)
(* whatever path it has.                                                   *)
(***************************************************************************)
TargetURLs == {RootURL, PdfLink}

TargetInit ==
  /\ config \in [BaseURL : TargetURLs, MaxDepth : {1},
                 ParallelWorkers : 1..MaxWorkers, SkipPatterns : SkipPatternChoices]
  /\ site \in Sites
  /\ discovery \in DiscoveryInputs
  /\ priorReport = None
  /\ startup = "ok"
  /\ NewSession

TargetSpec == TargetInit /\ [][Next]_vars

\* Scheme and host are the base URL's and the path does not end in an
\* excluded extension.
InScope(u) ==
  /\ u.origin = BaseURL.origin
  /\ \A ext \in EXCLUDED_EXTENSIONS : ~HasSuffix(ToLower(u.path), ext)

\* C30 (as claimed): every URL dispatched to the Renderer is in scope, whether
\* it came into the queue as the seed, from discovery or from a page's links.
C30_DispatchedInScope ==
  /\ \A i \in 1..Len(captures) : InScope(captures[i].url)
  /\ \A i \in 1..Len(tasks) : InScope(tasks[i].url)

\* The same for the URLs that came from discovery or from a page's links.
C30_DiscoveredAndLinkedInScope ==
  /\ \A i \in 1..Len(captures) :
       captures[i].url # BaseURL => InScope(captures[i].url)
  /\ \A i \in 1..Len(tasks) :
       tasks[i].url # BaseURL => InScope(tasks[i].url)

\* The URLs the prior report holds with failed outcomes only.
PriorFailedOnly ==
  { PreviousResults(priorReport)[i].URL : i \in 1..Len(PreviousResults(priorReport)) }
    \ PriorSuccessURLs

\* The existing set holds successes of the prior report only, all of them once
\* Initialize has loaded it; and a report written is the prior list followed
\* by this run's outcomes.
ExistingAreSuccesses ==
  /\ existingURLs \subseteq PriorSuccessURLs
  /\ phase \in {"initialized", "discovered", "seq", "par", "wait", "crawled", "reported"}
       => existingURLs = PriorSuccessURLs
  /\ report # None => report[1].Results = PreviousResults(priorReport) \o results

\* A step that dequeues a URL the prior report holds with failures only
\* dispatches it unless it is too deep, visited in this run or skip-matched.
FailedOnlyStep ==
  \A k \in 1..Len(Dequeued) :
    NormalizeURL(Dequeued[k]) \in PriorFailedOnly =>
      (Dispatches <=> /\ DepthOf(Dequeued[k]) <= config.MaxDepth
                      /\ NormalizeURL(Dequeued[k]) \notin visitedURLs
                      /\ ~SkipMatched(Dequeued[k]))

\* C31: the existing set holds only URLs with a successful outcome in the
\* prior report; a URL with failed prior outcomes only is not in it, is
\* dispatched when dequeued, and its new outcome follows the old failed entry
\* in the report.
C31_OnlySuccessesPreExisting ==
  []ExistingAreSuccesses /\ [][FailedOnlyStep]_vars

\* The report written holds the failed entry of the prior report for a URL
\* and, after the prior entries, this run's successful outcome for that URL.
C31_Witness ==
  /\ report # None
  /\ \E u \in PriorFailedOnly :
       /\ u \notin existingURLs
       /\ \E i \in 1..Len(PreviousResults(priorReport)) :
            /\ report[1].Results[i].URL = u
            /\ ~report[1].Results[i].Success
       /\ \E j \in (Len(PreviousResults(priorReport)) + 1)..Len(report[1].Results) :
            /\ report[1].Results[j].URL = u
            /\ report[1].Results[j].Success

\* The report r, written for the session results rs, counts rs as the new
\* pages and its own list as the total.
CountsOf(r, rs) ==
  /\ r.NewPagesInThisRun = Len(rs)
  /\ r.TotalPages = Len(r.Results)

\* C32: in every merged report NewPagesInThisRun is the number of outcomes
\* this run recorded, whatever the size of the prior report, and TotalPages is
\* the length of the merged list.
C32_NewPagesIsThisRun ==
  /\ rep1 # None => CountsOf(rep1[1], runA)
  /\ rep2 # None => CountsOf(rep2[1], runB)
  /\ repAB # None => CountsOf(repAB[1], runA \o runB)

\* A run of one outcome was merged into a report of two.
C32_Witness ==
  /\ rep2 # None
  /\ Len(runA) = 2 /\ Len(runB) = 1
  /\ rep2[1].TotalPages = 3

\* The report r, written for the session results rs, has its LastUpdate set
\* exactly when rs is not empty.
MarkerOf(r, rs) == r.LastUpdate <=> Len(rs) > 0

\* C33: the report's LastUpdate is set if and only if this run recorded at
\* least one outcome, whether or not the prior report had it set.
C33_LastUpdateIffNewOutcomes ==
  /\ rep1 # None => MarkerOf(rep1[1], runA)
  /\ rep2 # None => MarkerOf(rep2[1], runB)
  /\ repAB # None => MarkerOf(repAB[1], runA \o runB)

\* A run without outcomes was merged into a report that had LastUpdate set,
\* and the report written has it unset.
C33_Witness ==
  /\ rep2 # None
  /\ runB = <<>>
  /\ rep1[1].LastUpdate
  /\ ~rep2[1].LastUpdate
  /\ rep2[1].TotalPages = Len(runA)

(***************************************************************************)
(* Discovery with failing sources                                          *)
(***************************************************************************)
\* Runs whose discovery is enabled and whose sources fail: both, one of the
\* two, the sitemap robots.txt refers to, or the only source asked for.
DegradedInputs ==
  { [CheckSitemap |-> TRUE, CheckRobots |-> TRUE,
     sitemap |-> {PageSlash("b"), RootSlash}, robots |-> {Page("a")},
     fetch |-> [sitemap |-> "fetch error", robots |-> "status", referenced |-> "ok"]],
    [CheckSitemap |-> TRUE, CheckRobots |-> TRUE,
     sitemap |-> {PageSlash("b")}, robots |-> {Page("a")},
     fetch |-> [sitemap |-> "parse error", robots |-> "ok", referenced |-> "ok"]],
    [CheckSitemap |-> TRUE, CheckRobots |-> TRUE,
     sitemap |-> {PageSlash("b")}, robots |-> {Page("a")},
     fetch |-> [sitemap |-> "ok", robots |-> "read error", referenced |-> "ok"]],
    [CheckSitemap |-> FALSE, CheckRobots |-> TRUE,
     sitemap |-> {}, robots |-> {Page("a"), Page("b")},
     fetch |-> [sitemap |-> "ok", robots |-> "ok", referenced |-> "status"]],
    [CheckSitemap |-> TRUE, CheckRobots |-> FALSE,
     sitemap |-> {PageQuery("a")}, robots |-> {},
     fetch |-> [sitemap |-> "read error", robots |-> "ok", referenced |-> "ok"]] }

DegradedInit ==
  /\ config \in [BaseURL : {RootURL}, MaxDepth : {1},
                 ParallelWorkers : 1..MaxWorkers, SkipPatterns : SkipPatternChoices]
  /\ site \in Sites
  /\ discovery \in DegradedInputs
  /\ priorReport = None
  /\ startup = "ok"
  /\ NewSession

DegradedSpec == DegradedInit /\ [][Next]_vars

\* A source that was asked for and failed.
SitemapFailed(d) == d.CheckSitemap /\ d.fetch.sitemap \in FetchFailures
RobotsFailed(d) ==
  d.CheckRobots /\ (d.fetch.robots \in FetchFailures \/ d.fetch.referenced \in FetchFailures)

\* The same discovery with the failed sources not asked for.
WithoutFailed(d) ==
  [d EXCEPT !.CheckSitemap = @ /\ ~SitemapFailed(d),
            !.CheckRobots = @ /\ ~RobotsFailed(d)]

\* Every source asked for failed.
AllSourcesFailed(d) ==
  /\ d.CheckSitemap \/ d.CheckRobots
  /\ d.CheckSitemap => SitemapFailed(d)
  /\ d.CheckRobots => RobotsFailed(d)

\* The step of AppService.DiscoverURLs returns no error and enqueues what it
\* would with the failed sources switched off; with every source failed it
\* leaves the session as the disabled branch does.
DegradedStep ==
  phase = "initialized" /\ phase' # phase =>
    /\ phase' = "discovered"
    /\ \E discoveredURLs \in Orders(DiscoveredSet(WithoutFailed(discovery))) :
         LET s == AddDiscovered(discoveredURLs, [q |-> urlQueue, d |-> depthMap],
                                visitedURLs, existingURLs)
         IN  urlQueue' = s.q /\ depthMap' = s.d
    /\ AllSourcesFailed(discovery) =>
         UNCHANGED <<urlQueue, depthMap, visitedURLs, existingURLs, results, report>>

\* With every source failed the crawl starts from an empty queue, so the seed
\* is the first URL dispatched.
SeedFirstWhenAllFailed ==
  AllSourcesFailed(discovery) =>
    /\ phase = "discovered" => urlQueue = <<>> /\ depthMap = EmptyMap
    /\ captures # <<>> => captures[1].url = config.BaseURL

\* C34: a failure of a discovery source (fetch, HTTP status, read or parse) is
\* never fatal: the failed source contributes no URL, DiscoverURLs returns no
\* error, and the crawl of the seed goes on as it does with discovery disabled.
C34_DiscoveryFailureNotFatal == []SeedFirstWhenAllFailed /\ [][DegradedStep]_vars

\* Reached: a run whose every discovery source failed has crawled the seed and
\* a page linked from it and written its report.
C34_Witness ==
  /\ AllSourcesFailed(discovery)
  /\ report # None
  /\ Len(results) >= 2
  /\ results[1].URL = config.BaseURL

=============================================================================
